---- MODULE Spec2Model ----
(***************************************************************************)
(* Model of the API-key pool of src/app/key_pool.py (class KeyPool):       *)
(* a list of keys with a rotation cursor, a cooldown timestamp and a       *)
(* failure counter per key.  Time is the integer number of seconds read    *)
(* from the clock (time.time()).                                           *)
(***************************************************************************)
EXTENDS FiniteSets, Integers, Sequences, TLC

(* ----------------------------- bounds ---------------------------------- *)
\* longest configured key list
MaxKeys == 2
\* longest configured key list of the rotation scenario
MaxRotKeys == 3
\* longest configured key list of the backoff scenario
MaxBackoffKeys == 1
\* a failure counter is never driven beyond this value
MaxFails == 1
\* the same, in the backoff scenario
MaxStreak == 6
\* callers sharing one pool
MaxCallers == 2
\* the clock is never advanced beyond this value
MaxNow == 150
\* the same, in the backoff scenario
MaxBackoffNow == 300

\* retry_delay_seconds arguments handed to report_failure
Delays == {0, 400}
\* the same, in the backoff scenario
BackoffDelays == {0, 10, 400}
\* seconds that may pass between two calls
Ticks == {150}

(* ----------------------------- values ---------------------------------- *)
\* Python's None (the keys are non-empty strings, so it is no key)
None == "None"
\* outcome of a call that returns nothing
Void == "void"
\* outcome of a call that raised
ZeroDivisionError == "ZeroDivisionError"
\* a key that is in no configured list
StrangerKey == "kx"
\* the i-th key name
KeyName(i) == <<"k1", "k2", "k3", "k4", "k5">>[i]

\* the call that was made last, with its arguments
NoCall == [name |-> "__init__", key |-> None, retry_delay_seconds |-> 0, hard |-> FALSE]
Call(n, k, d, h) == [name |-> n, key |-> k, retry_delay_seconds |-> d, hard |-> h]

Range(s) == {s[i] : i \in DOMAIN s}
Min(a, b) == IF a <= b THEN a ELSE b
Max(a, b) == IF a >= b THEN a ELSE b

\* Configured lists up to renaming of the keys: position 1 holds k1 or the
\* empty string, and a key name is used only after all smaller ones.
RECURSIVE ConfiguredLists(_)
ConfiguredLists(n) ==
    IF n = 0 THEN {<<>>}
    ELSE LET shorter == ConfiguredLists(n - 1)
             longest == {s \in shorter : Len(s) = n - 1}
             Used(s) == Cardinality(Range(s) \ {""})
         IN  shorter \cup
             {Append(s, k) : s \in longest, k \in {""}} \cup
             UNION {{Append(s, KeyName(i)) : i \in 1..(Used(s) + 1)} : s \in longest}

VARIABLES
    keys,         \* self.keys: the list of keys, fixed at construction
    cooldowns,    \* self._cooldowns: key -> time until which it cools down
    fail_counts,  \* self._fail_counts: key -> failure counter
    index,        \* self._index: the rotation cursor (0-based)
    now,          \* the clock, time.time()
    op,           \* the last call made on the pool, with its arguments
    ret,          \* what the last call returned (or raised)
    prev_ret,     \* what next_key returned the time before, when no report
                  \* was made since; Void otherwise (history)
    streak,       \* key -> soft failures reported since the last success,
                  \* hard failure or construction (history)
    last_outcome, \* key -> "none", "soft", "hard" or "success": the last
                  \* report made for the key (history)
    prior,        \* last_outcome of the reported key before the last report
    skipped,      \* the times the last call, a next_key, moved the cursor;
                  \* 0 after any other call (history)
    active,       \* protocol scenario: the number of callers
    pc,           \* protocol scenario: caller -> "idle" or "generating"
    held,         \* protocol scenario: caller -> the key it was handed
    handed,       \* protocol scenario: keys handed out since the last report
    phase,        \* rotation scenario: "warmup", "pick", "report" or "done"
    run,          \* rotation scenario: what the cycles' next_key returned
    api_keys,           \* AIProcessor.api_keys: the keys of the category
    current_key_index,  \* AIProcessor.current_key_index
    model,              \* AIProcessor.model: the position in api_keys of the
                        \* key it was configured with
    ai_pc,              \* "idle", or "loop" inside rewrite_content's for loop
    iterations,         \* iterations of the for loop begun in this call
    last_error,         \* rewrite_content's local last_error
    response,           \* what the last generation attempt produced
    ai_ret,             \* what the last rewrite_content call returned/raised
    attempts,           \* positions of the keys of this call's generation
                        \* attempts, in order (history)
    start_index,        \* current_key_index when this call began (history)
    served_before,      \* <<i>> when the call before this one succeeded with
                        \* the key at position i, else <<>> (history)
    calls,              \* rewrite_content calls begun on the instance
    consecutive_failures,  \* the store's per-feed consecutive-failure counter
    cycle_pc,           \* run_pipeline_cycle: "idle" (not running), "feed"
                        \* (top of the feed loop), "article" (top of the
                        \* article loop) or "rewriting" (in rewrite_content)
    source_i,           \* position of source_id in PIPELINE_ORDER (0: none)
    cycles,             \* cycles begun
    turn,               \* feed -> what this cycle did on its turn (history)
    skipped_before,     \* feeds the breaker skipped in the cycle before
    todo,               \* articles of the feed the article loop goes over
    handled,            \* articles of the feed the loop has gone over
    marked,             \* the final status given to the last of them, with
                        \* its reason and what happened to it (history)
    steps,              \* the steps applied to the current article, in
                        \* order (history)
    last_processed_feed_index,  \* the stored pipeline state of that name:
                        \* <<>> when there is none, <<i>> when it is i
    max_deferred,       \* SCHEDULE_CONFIG['max_deferred_articles_per_feed']
    feed_pc,            \* pipeline.py's cycle: "idle" or "article"
    articles_to_process,  \* how many articles its loop goes over
    gone_over,          \* how many of them the loop has gone over
    deferred_count,     \* its local of that name
    deferrals,          \* articles set to DEFERRED in this cycle (history)
    late,               \* articles gone over in this cycle after a deferral
                        \* had brought the deferrals to the limit (history)
    feed_marked,        \* status given to the last article gone over
    feed_cycles,        \* cycles of pipeline.py begun
    cycle_log,          \* for each of these cycles, the feed it took and how
                        \* it ended (history)
    content_html,       \* merge_images_into_content: the document, as the
                        \* sequence of its elements
    image_urls,         \* its candidate URLs
    max_images,         \* its limit
    merged,             \* what it returned
    html_pc,            \* "input" before the call, "merged" after it
    html,               \* the document given to a normalizing function, as
                        \* the sequence of its elements
    normalizer,         \* the normalizing function applied to it, or None
    normalized,         \* what it returned: for each element of html, the
                        \* elements the output has in its place
    soup,               \* the document _remove_forbidden_blocks works on
                        \* (it changes it in place)
    previous,           \* the document before its last pass (history)
    passes              \* the passes of _remove_forbidden_blocks made on it

pool == <<keys, cooldowns, fail_counts, index>>
history == <<prev_ret, streak, last_outcome, prior, skipped>>
callers == <<active, pc, held, handed>>
rotation == <<phase, run>>
keypool == <<pool, now, op, ret, history, callers, rotation>>
processor == <<api_keys, current_key_index, model, ai_pc, iterations,
               last_error, response, ai_ret, attempts, start_index,
               served_before, calls>>
cyclevars == <<consecutive_failures, cycle_pc, source_i, cycles, turn,
               skipped_before, todo, handled, marked, steps>>
feedvars == <<last_processed_feed_index, max_deferred, feed_pc,
              articles_to_process, gone_over, deferred_count, deferrals, late,
              feed_marked, feed_cycles, cycle_log>>
htmlvars == <<content_html, image_urls, max_images, merged, html_pc>>
embedvars == <<html, normalizer, normalized>>
blockvars == <<soup, previous, passes>>
sanitizers == <<embedvars, blockvars>>
elsewhere == <<processor, cyclevars, feedvars, htmlvars, sanitizers>>
vars == <<keypool, elsewhere>>

(* ------------------------- KeyPool.__init__ ---------------------------- *)
\* self.keys = [k for k in keys if k]
FilterKeys(raw) == SelectSeq(raw, LAMBDA k : k # "")

Construct(raw) ==
    /\ keys = FilterKeys(raw)
    /\ cooldowns = [k \in Range(FilterKeys(raw)) |-> 0]
    /\ fail_counts = [k \in Range(FilterKeys(raw)) |-> 0]
    /\ index = 0
    /\ now = 0
    /\ op = NoCall
    /\ ret = Void
    /\ prev_ret = Void
    /\ streak = [k \in Range(FilterKeys(raw)) |-> 0]
    /\ last_outcome = [k \in Range(FilterKeys(raw)) |-> "none"]
    /\ prior = "none"
    /\ skipped = 0

\* no caller protocol and no rotation scenario is running
NoScenario ==
    /\ active = 0 /\ pc = <<>> /\ held = <<>> /\ handed = {}
    /\ phase = "idle" /\ run = <<>>

\* no AIProcessor instance exists
NoProcessor ==
    /\ api_keys = <<>> /\ current_key_index = 0 /\ model = None
    /\ ai_pc = "idle" /\ iterations = 0 /\ last_error = None
    /\ response = None /\ attempts = <<>>
    /\ ai_ret = [kind |-> "void", data |-> None, reason |-> <<>>]
    /\ start_index = 0 /\ calls = 0 /\ served_before = <<>>

\* no pipeline cycle is running and no feed is known
NoCycle ==
    /\ consecutive_failures = <<>> /\ cycle_pc = "idle" /\ source_i = 0
    /\ cycles = 0 /\ turn = <<>> /\ skipped_before = {} /\ todo = 0
    /\ handled = 0 /\ steps = <<>>
    /\ marked = [status |-> "NEW", reason |-> <<>>, cause |-> "none"]

\* no single-feed cycle of pipeline.py is running
NoFeedCycle ==
    /\ last_processed_feed_index = <<>> /\ max_deferred = 0
    /\ feed_pc = "idle" /\ articles_to_process = 0 /\ gone_over = 0
    /\ deferred_count = 0 /\ deferrals = 0 /\ late = 0
    /\ feed_marked = "NEW" /\ feed_cycles = 0 /\ cycle_log = <<>>

\* no document is being merged
NoHtml ==
    /\ content_html = <<>> /\ image_urls = <<>> /\ max_images = 0
    /\ merged = <<>> /\ html_pc = "none"

\* no document is being normalized
NoEmbed == html = <<>> /\ normalizer = None /\ normalized = <<>>

\* no document is being cleaned of its forbidden blocks
NoBlocks == soup = <<>> /\ previous = <<>> /\ passes = 0

\* no sanitizing function is in use
NoSanitizer == NoEmbed /\ NoBlocks

\* nothing but the key pool is in use
ElsewhereIdle == NoProcessor /\ NoCycle /\ NoFeedCycle /\ NoHtml /\ NoSanitizer

Init ==
    /\ \E raw \in ConfiguredLists(MaxKeys) : Construct(raw) /\ NoScenario
    /\ ElsewhereIdle

(* ------------------------- KeyPool.next_key ---------------------------- *)
\* variant: the comparison made strict
IsAvailable_strict(key, t) ==
    t > (IF key \in DOMAIN cooldowns THEN cooldowns[key] ELSE 0)

\* now >= self._cooldowns.get(key, 0)
IsAvailable(key, t) ==
    t >= (IF key \in DOMAIN cooldowns THEN cooldowns[key] ELSE 0)

\* variant: one probe short of a full scan
NumProbes_short == Len(keys) - 1

\* for _ in range(len(self.keys))
NumProbes == Len(keys)

\* variant: the cursor is not wrapped
Advance_no_wrap(i) == i + 1

\* variant: the cursor is left where it is
Advance_stay(i) == i

\* self._index = (self._index + 1) % len(self.keys)
Advance(i) == (i + 1) % Len(keys)

\* variant: the cursor moves past the key that is returned
RECURSIVE Scan_advancing(_, _, _)
Scan_advancing(i, left, t) ==
    IF left = 0 THEN [key |-> None, index |-> i]
    ELSE IF IsAvailable(keys[i + 1], t)
         THEN [key |-> keys[i + 1], index |-> Advance(i)]
    ELSE Scan_advancing(Advance(i), left - 1, t)

\* the loop of next_key from cursor i with `left` probes to go: the key
\* returned and the cursor left behind
RECURSIVE Scan(_, _, _)
Scan(i, left, t) ==
    IF left = 0 THEN [key |-> None, index |-> i]
    ELSE IF IsAvailable(keys[i + 1], t) THEN [key |-> keys[i + 1], index |-> i]
    ELSE Scan(Advance(i), left - 1, t)

next_key ==
    /\ op' = Call("next_key", None, 0, FALSE)
    /\ IF keys = <<>>
       THEN ret' = None /\ index' = index /\ skipped' = 0
       ELSE LET r == Scan(index, NumProbes, now)
            IN  /\ ret' = r.key /\ index' = r.index
                /\ skipped' = IF r.key = None THEN NumProbes
                              ELSE (r.index - index) % Len(keys)
    /\ prev_ret' = IF op.name = "next_key" THEN ret ELSE Void
    /\ prior' = "none"
    /\ UNCHANGED <<keys, cooldowns, fail_counts, now, streak, last_outcome>>

(* ----------------------- KeyPool.report_failure ------------------------ *)
\* variant: a hard failure is counted like a soft one
StoredCount_kept(count, hard) == count

\* self._fail_counts[key] = 0 if hard else count
StoredCount(count, hard) == IF hard THEN 0 ELSE count

\* base = max(retry_delay_seconds, 1)
Base(retry_delay_seconds) == Max(retry_delay_seconds, 1)

\* the cap of the delay, in seconds
CooldownCap == 300

\* variant: the exponent is the count itself
Delay_late(retry_delay_seconds, count) ==
    Min(Base(retry_delay_seconds) * (2 ^ count), CooldownCap)

\* variant: no cap
Delay_uncapped(retry_delay_seconds, count) ==
    Base(retry_delay_seconds) * (2 ^ (count - 1))

\* delay = min(base * (2 ** (count - 1)), 300)
Delay(retry_delay_seconds, count) ==
    Min(Base(retry_delay_seconds) * (2 ^ (count - 1)), CooldownCap)

report_failure(key, retry_delay_seconds, hard) ==
    /\ op' = Call("report_failure", key, retry_delay_seconds, hard)
    /\ skipped' = 0
    /\ ret' = Void
    /\ prev_ret' = Void
    /\ IF key \notin DOMAIN cooldowns
       THEN /\ prior' = "none"
            /\ UNCHANGED <<cooldowns, fail_counts, index, streak, last_outcome>>
       ELSE LET count == fail_counts[key] + 1
            IN  /\ fail_counts' = [fail_counts EXCEPT ![key] = StoredCount(count, hard)]
                /\ cooldowns' = [cooldowns EXCEPT
                                   ![key] = now + Delay(retry_delay_seconds, count)]
                /\ index' = Advance(index)
                /\ streak' = [streak EXCEPT ![key] = IF hard THEN 0 ELSE @ + 1]
                /\ last_outcome' = [last_outcome EXCEPT
                                      ![key] = IF hard THEN "hard" ELSE "soft"]
                /\ prior' = last_outcome[key]
    /\ UNCHANGED <<keys, now>>

(* ----------------------- KeyPool.report_success ------------------------ *)
\* variant: the entry is left as it is
Cleared_kept(f, key) == f

\* self._cooldowns[key] = 0 ; self._fail_counts[key] = 0
Cleared(f, key) == [f EXCEPT ![key] = 0]

report_success(key) ==
    /\ op' = Call("report_success", key, 0, FALSE)
    /\ skipped' = 0
    /\ prev_ret' = Void
    /\ IF keys = <<>>
       THEN \* the modulo by len(self.keys) = 0 raises; nothing was assigned
            /\ ret' = ZeroDivisionError
            /\ prior' = "none"
            /\ UNCHANGED <<cooldowns, fail_counts, index, streak, last_outcome>>
       ELSE /\ ret' = Void
            /\ IF key \in DOMAIN cooldowns
               THEN /\ cooldowns' = Cleared(cooldowns, key)
                    /\ fail_counts' = Cleared(fail_counts, key)
                    /\ streak' = [streak EXCEPT ![key] = 0]
                    /\ last_outcome' = [last_outcome EXCEPT ![key] = "success"]
                    /\ prior' = last_outcome[key]
               ELSE /\ prior' = "none"
                    /\ UNCHANGED <<cooldowns, fail_counts, streak, last_outcome>>
            /\ index' = Advance(index)
    /\ UNCHANGED <<keys, now>>

(* ------------------------------ the clock ------------------------------ *)
Tick(d, bound) ==
    /\ now + d <= bound
    /\ now' = now + d
    /\ UNCHANGED <<pool, op, ret, history>>

(* ------------------- the pool under arbitrary calls -------------------- *)
\* a soft failure may still be counted for the key
Countable(key, hard, bound) ==
    key \in DOMAIN fail_counts => (hard \/ fail_counts[key] < bound)

\* calls in any order: reports for the keys of the pool with any arguments,
\* and reports for a key that is not in the pool
AnyCall(delays, bound, latest) ==
    \/ next_key
    \/ \E k \in Range(keys), d \in delays, h \in BOOLEAN :
          Countable(k, h, bound) /\ report_failure(k, d, h)
    \/ \E d \in delays : report_failure(StrangerKey, d, FALSE)
    \/ \E k \in Range(keys) \cup {StrangerKey} : report_success(k)
    \/ \E d \in Ticks : Tick(d, latest)

Next == AnyCall(Delays, MaxFails, MaxNow) /\ UNCHANGED <<callers, rotation, elsewhere>>

Spec == Init /\ [][Next]_vars

(* ---------------- the backoff scenario: one pool, long streaks --------- *)
BackoffInit ==
    /\ \E raw \in ConfiguredLists(MaxBackoffKeys) : Construct(raw) /\ NoScenario
    /\ ElsewhereIdle

BackoffNext ==
    AnyCall(BackoffDelays, MaxStreak, MaxBackoffNow) /\ UNCHANGED <<callers, rotation, elsewhere>>

BackoffSpec == BackoffInit /\ [][BackoffNext]_vars

(* ------- the rotation scenario: N cycles of next_key + report_failure -- *)
\* The pool is first brought to any cursor position by successful reports
\* (which leave no key cooling down), then runs len(keys) cycles.
RotInit ==
    /\ \E raw \in ConfiguredLists(MaxRotKeys) : Construct(raw)
    /\ active = 0 /\ pc = <<>> /\ held = <<>> /\ handed = {}
    /\ phase = "warmup" /\ run = <<>>
    /\ ElsewhereIdle

RotWarmup ==
    /\ phase = "warmup"
    /\ keys # <<>>
    /\ \E k \in Range(keys) : report_success(k)
    /\ UNCHANGED <<callers, rotation, elsewhere>>

RotPick ==
    /\ phase \in {"warmup", "pick"}
    /\ Len(run) < Len(keys)
    /\ next_key
    /\ run' = Append(run, ret')
    /\ phase' = IF ret' = None THEN "done" ELSE "report"
    /\ UNCHANGED <<callers, elsewhere>>

RotReport ==
    /\ phase = "report"
    /\ \E d \in Delays, h \in BOOLEAN : report_failure(ret, d, h)
    /\ phase' = IF Len(run) = Len(keys) THEN "done" ELSE "pick"
    /\ UNCHANGED <<callers, run, elsewhere>>

RotTick ==
    /\ phase # "warmup"
    /\ \E d \in Ticks : Tick(d, MaxNow)
    /\ UNCHANGED <<callers, rotation, elsewhere>>

RotNext == RotWarmup \/ RotPick \/ RotReport \/ RotTick

RotSpec == RotInit /\ [][RotNext]_vars

(* ---- the protocol scenario: callers doing next_key, generate, report -- *)
Callers == 1..active

ProtoInit ==
    /\ \E raw \in ConfiguredLists(MaxKeys) : Construct(raw)
    /\ active \in 1..MaxCallers
    /\ pc = [c \in 1..active |-> "idle"]
    /\ held = [c \in 1..active |-> None]
    /\ handed = {}
    /\ phase = "idle" /\ run = <<>>
    /\ ElsewhereIdle

\* a caller asks for a key; with none it has nothing to report
CallerPick(c) ==
    /\ pc[c] = "idle"
    /\ next_key
    /\ IF ret' = None
       THEN UNCHANGED <<pc, held, handed>>
       ELSE /\ pc' = [pc EXCEPT ![c] = "generating"]
            /\ held' = [held EXCEPT ![c] = ret']
            /\ handed' = handed \cup {ret'}
    /\ UNCHANGED <<active, rotation, elsewhere>>

\* the generation call of a caller ended: it reports on the key it holds,
\* a success or a failure (with the default hard=False)
CallerReport(c) ==
    /\ pc[c] = "generating"
    /\ \/ \E d \in Delays :
             Countable(held[c], FALSE, MaxFails) /\ report_failure(held[c], d, FALSE)
       \/ report_success(held[c])
    /\ pc' = [pc EXCEPT ![c] = "idle"]
    /\ held' = [held EXCEPT ![c] = None]
    /\ handed' = {}
    /\ UNCHANGED <<active, rotation, elsewhere>>

ProtoTick ==
    /\ \E d \in Ticks : Tick(d, MaxNow)
    /\ UNCHANGED <<callers, rotation, elsewhere>>

ProtoNext ==
    \/ \E c \in Callers : CallerPick(c)
    \/ \E c \in Callers : CallerReport(c)
    \/ ProtoTick

ProtoSpec == ProtoInit /\ [][ProtoNext]_vars

\* the keys handed out whose outcome is not reported yet
InFlight == {held[c] : c \in {x \in Callers : pc[x] = "generating"}}

(* ============================ properties =============================== *)
\* the step is a call of the named operation (the clock stands still
\* during a call; it moves in Tick steps only)
CallStep(name) == op'.name = name /\ now' = now

\* the keys of the pool that are not cooling down at time t
Expired(t) == {k \in Range(keys) : cooldowns[k] <= t}

\* the key at cyclic offset j from cursor s
KeyAt(s, j) == keys[((s + j) % Len(keys)) + 1]

\* the first key in cyclic list order from cursor s that is not cooling
\* down at time t, None when there is none
FirstExpired(s, t) ==
    LET offs == {j \in 0..(Len(keys) - 1) : cooldowns[KeyAt(s, j)] <= t}
    IN  IF offs = {} THEN None
        ELSE KeyAt(s, CHOOSE j \in offs : \A m \in offs : j <= m)

\* C1: next_key never hands out a key that is cooling down: a returned key
\* has cooldownUntil <= now and is the first such key in cyclic list order
\* from the rotation cursor; none is returned only when no key of the pool
\* has cooldownUntil <= now.
C1_NextKeyFirstAvailable ==
    [][CallStep("next_key") =>
          /\ ret' \in Range(keys) \cup {None}
          /\ ret' # None => cooldowns[ret'] <= now
          /\ ret' = None <=> Expired(now) = {}
          /\ ret' = FirstExpired(index, now)]_vars

\* C1 happens: next_key skipped the key at list position 1, which is
\* cooling down, and returned a key whose cooldown has ended.
C1_Witness ==
    /\ op.name = "next_key"
    /\ ret \in Range(keys)
    /\ cooldowns[ret] > 0
    /\ cooldowns[ret] <= now
    /\ cooldowns[keys[1]] > now
    /\ keys[index + 1] = ret

\* C5: with every key cooling down next_key returns none (a value); when the
\* clock has passed the cooldown of exactly one key, next_key returns that
\* key whatever the cursor position; with several such keys it returns one
\* of them.
C5_ExhaustionAndRecovery ==
    [][CallStep("next_key") =>
          /\ Expired(now) = {} => ret' = None
          /\ \A k \in Range(keys) : Expired(now) = {k} => ret' = k
          /\ Expired(now) # {} => ret' \in Expired(now)]_vars

\* C5 happens: a next_key call found the pool exhausted, then, with no report
\* in between, the next call returned a key that is not at list position 1
\* while the other keys are still cooling down.
C5_Witness ==
    /\ op.name = "next_key"
    /\ prev_ret = None
    /\ ret \in Range(keys)
    /\ Expired(now) = {ret}
    /\ Len(keys) >= 2
    /\ index > 0
    /\ keys[1] # ret

\* C6: once next_key has returned a key, every further next_key call made
\* before any report returns the same key, however much time passes.
C6_IdempotentPeek ==
    (op.name = "next_key" /\ prev_ret \in Range(keys)) => ret = prev_ret

\* C6 happens: two next_key calls with no report in between returned the
\* same key, at a cursor position other than the first, while the key at the
\* first position is available too.
C6_Witness ==
    /\ op.name = "next_key"
    /\ prev_ret \in Range(keys)
    /\ ret = prev_ret
    /\ index > 0
    /\ keys[1] # ret
    /\ cooldowns[keys[1]] <= now

\* C7: the cursor of a non-empty pool always indexes a valid position, and
\* the key list never changes after construction.
C7_CursorInRange ==
    /\ [](keys # <<>> => index \in 0..(Len(keys) - 1))
    /\ [][keys' = keys]_vars

\* C7 happens: a report on the key at the last list position wrapped the
\* cursor around to position 0.
C7_Witness ==
    /\ op.name \in {"report_failure", "report_success"}
    /\ op.key \in Range(keys)
    /\ Len(keys) >= 2
    /\ index = 0

\* C8: report_success(k) for a key k of the pool clears k's cooldown (k is
\* selectable at once), resets k's failure counter to 0 and advances the
\* cursor by exactly one position modulo N; cooldowns and counters of the
\* other keys are unchanged.
C8_ReportSuccess ==
    [][\A k \in Range(keys) :
          (CallStep("report_success") /\ op'.key = k) =>
             /\ cooldowns' = [cooldowns EXCEPT ![k] = 0]
             /\ cooldowns'[k] <= now'
             /\ fail_counts' = [fail_counts EXCEPT ![k] = 0]
             /\ index' = (index + 1) % Len(keys)]_vars

\* C8 happens: success was reported for a key that was cooling down after a
\* soft failure, while another key keeps its cooldown and its counter.
C8_Witness ==
    /\ op.name = "report_success"
    /\ op.key \in Range(keys)
    /\ prior = "soft"
    /\ \E k \in Range(keys) : cooldowns[k] > now /\ fail_counts[k] > 0

\* the step is a report_failure call for key k, soft or hard
FailureStep(k, hard) ==
    CallStep("report_failure") /\ op'.key = k /\ op'.hard = hard

\* C3 as claimed: the k-th consecutive soft failure of a key sets its
\* cooldown to now + min(base * 2^(k-1), 300), k = 1..6, for every base >= 0.
C3_Original ==
    [][\A k \in Range(keys) :
          (FailureStep(k, FALSE) /\ streak'[k] \in 1..6) =>
             cooldowns'[k] =
                now + Min(op'.retry_delay_seconds * (2 ^ (streak'[k] - 1)), 300)]_vars

\* C3 as amended: the k-th consecutive soft failure of a key sets its
\* cooldown to now + min(max(base, 1) * 2^(k-1), 300), k = 1..6: a base
\* delay below one second counts as one second.
C3_ExponentialCooldown ==
    [][\A k \in Range(keys) :
          (FailureStep(k, FALSE) /\ streak'[k] \in 1..6) =>
             cooldowns'[k] =
                now + Min(Max(op'.retry_delay_seconds, 1) * (2 ^ (streak'[k] - 1)), 300)]_vars

\* C3 happens: the sixth consecutive soft failure with base 10 was reported
\* after the clock moved, and the cap cut 320 down to 300.
C3_Witness ==
    /\ op.name = "report_failure"
    /\ ~op.hard
    /\ op.retry_delay_seconds = 10
    /\ op.key \in Range(keys)
    /\ streak[op.key] = 6
    /\ now > 0
    /\ cooldowns[op.key] = now + 300

\* C4 as claimed: a hard failure leaves the key's counter at 0 whatever it
\* was, and the next soft failure of the key sets the delay min(base, 300).
C4_Original ==
    [][\A k \in Range(keys) :
          /\ FailureStep(k, TRUE) => fail_counts'[k] = 0
          /\ (FailureStep(k, FALSE) /\ last_outcome[k] = "hard") =>
                cooldowns'[k] = now + Min(op'.retry_delay_seconds, 300)]_vars

\* C4 as amended: a hard failure leaves the key's counter at 0 whatever it
\* was, and the next soft failure of the key sets the delay of a first
\* failure, min(max(base, 1), 300).
C4_HardFailureReset ==
    [][\A k \in Range(keys) :
          /\ FailureStep(k, TRUE) => fail_counts'[k] = 0
          /\ (FailureStep(k, FALSE) /\ last_outcome[k] = "hard") =>
                /\ fail_counts'[k] = 1
                /\ cooldowns'[k] = now + Min(Max(op'.retry_delay_seconds, 1), 300)]_vars

\* C4 happens: a soft failure with base 10 was reported for a key whose
\* report before that was a hard failure, and the delay is 10.
C4_Witness ==
    /\ op.name = "report_failure"
    /\ ~op.hard
    /\ op.key \in Range(keys)
    /\ prior = "hard"
    /\ op.retry_delay_seconds = 10
    /\ cooldowns[op.key] = now + 10

\* C9: no key is disabled for good: a failure report sets a cooldown of at
\* most 300 seconds, so at any moment every key of the pool is selectable
\* again 300 seconds later at the latest, if no further failure is reported.
C9_NeverPermanentlyDisabled ==
    /\ [][\A k \in Range(keys) :
            (FailureStep(k, TRUE) \/ FailureStep(k, FALSE)) =>
               cooldowns'[k] <= now + 300]_vars
    /\ [](\A k \in Range(keys) :
            cooldowns[k] <= now + 300 /\ IsAvailable(k, now + 300))

\* C9 happens: a key that failed twice in a row with base 400 is selectable
\* 300 seconds after its last failure report.
C9_Witness ==
    \E k \in Range(keys) :
        /\ streak[k] >= 2
        /\ now >= 300
        /\ cooldowns[k] = now
        /\ IsAvailable(k, now)

(* ---------------------------- rotation --------------------------------- *)
\* the keys of the list are pairwise distinct
DistinctKeys == Cardinality(Range(keys)) = Len(keys)

\* the cycles run so far each returned a key, no key twice, and after
\* len(keys) cycles every key of the pool was returned
EachKeyOnce ==
    /\ Len(run) <= Len(keys)
    /\ \A j \in DOMAIN run : run[j] \in Range(keys)
    /\ \A i, j \in DOMAIN run : i # j => run[i] # run[j]
    /\ phase = "done" => (Len(run) = Len(keys) /\ Range(run) = Range(keys))

\* C2 as claimed: from any cursor position of a pool of N keys with none
\* cooling down, N cycles of next_key and report_failure on the returned key
\* return each key exactly once.
C2_Original == phase # "idle" => EachKeyOnce

\* C2 as amended: the same for a pool whose N keys are pairwise distinct.
C2_Rotation == (phase # "idle" /\ DistinctKeys) => EachKeyOnce

\* C2 happens: three cycles on three distinct keys started at the second
\* list position are done, with time passing in between.
C2_Witness ==
    /\ phase = "done"
    /\ Len(keys) = 3
    /\ DistinctKeys
    /\ Len(run) = 3
    /\ run[1] = keys[2]
    /\ now > 0

(* ---------------------------- protocol --------------------------------- *)
\* C10 as claimed: with one caller or with two callers sharing the pool, no
\* two different keys are in flight at any moment.
C10_Original == Cardinality(InFlight) <= 1

\* C10 as amended: with one caller at most one key is in flight; with more
\* callers two different keys can be in flight, but the keys handed out with
\* no report in between are one and the same key.
C10_InFlight ==
    /\ active = 1 => Cardinality(InFlight) <= 1
    /\ Cardinality(handed) <= 1

\* C10 happens: two callers hold two different keys, the second of which was
\* handed out after the last report.
C10_Witness ==
    /\ active = 2
    /\ Cardinality(InFlight) = 2
    /\ Cardinality(handed) = 1

(* ======================= AIProcessor ================================== *)
MaxAiKeys == 2
MaxCalls == 3

AllKeysFailedError == "AllKeysFailedError"

\* A reason is a text, kept as the sequence of its pieces; NoReason stands
\* for None in the reason position of a returned pair.
NoReason == <<>>

\* the results of a call: nothing yet, a returned pair, a raised exception
NoReturn == [kind |-> "void", data |-> None, reason |-> NoReason]
Return(data, reason) == [kind |-> "return", data |-> data, reason |-> reason]
Raise(exception) == [kind |-> "raise", data |-> exception, reason |-> NoReason]

\* what generate_content can produce: it raises, or response.text is one of
\* these texts
GenerationRaises == "raises"
NotJson == "not json"
JsonList == "json list"
Rejection == "dict with erro"
RejectionWithFields == "dict with erro and the required keys"
Incomplete == "dict lacking a required key"
Complete == "dict with the required keys"
Responses == {NotJson, JsonList, Rejection, RejectionWithFields, Incomplete, Complete}

IsDict(text) == text \in {Rejection, RejectionWithFields, Incomplete, Complete}
HasErro(text) == text \in {Rejection, RejectionWithFields}
HasRequiredKeys(text) == text \in {RejectionWithFields, Complete}

\* str(e) of what generate_content raises
GenerationErrors == {"429 quota exceeded"}
ParseFailure == "Failed to parse or validate AI response. See logs for details."
UnknownError == "Unknown error"

\* parsed_data["erro"], the reason the AI gives with a rejection
Erro(data) == <<"rejected by the AI">>

\* AIProcessor._parse_response: the parsed dict, or None
parse_response_keys_first(text) ==
    IF ~IsDict(text) THEN None
    ELSE IF ~HasRequiredKeys(text) THEN None
    ELSE text

parse_response(text) ==
    IF ~IsDict(text) THEN None
    ELSE IF HasErro(text) THEN text
    ELSE IF ~HasRequiredKeys(text) THEN None
    ELSE text

\* AIProcessor._failover_to_next_key
failover_to_next_key(i) == i + 1

\* AIProcessor._configure_model on n keys, from key index i with model m:
\* the outcomes it can have, as configuring a key succeeds or raises
RECURSIVE configure_model(_, _, _)
configure_model(n, i, m) ==
    IF i >= n
    THEN {[index |-> i, model |-> m, raised |-> TRUE]}
    ELSE {[index |-> i, model |-> i, raised |-> FALSE]}
         \cup configure_model(n, failover_to_next_key(i), m)

\* final_reason of rewrite_content
final_reason(error) == <<"All API keys for category failed. Last error: ", error>>

\* AIProcessor.__init__ that did not raise: at least one key, and a model
\* configured with the first key that could be configured
AiInit ==
    /\ Construct(<<>>) /\ NoScenario
    /\ \E n \in 1..MaxAiKeys : \E c \in configure_model(n, 0, None) :
          /\ ~c.raised
          /\ api_keys = [i \in 1..n |-> KeyName(i)]
          /\ current_key_index = c.index
          /\ model = c.model
    /\ ai_pc = "idle" /\ iterations = 0 /\ last_error = None
    /\ response = None /\ ai_ret = NoReturn /\ attempts = <<>>
    /\ start_index = 0 /\ calls = 0 /\ served_before = <<>>
    /\ NoCycle /\ NoFeedCycle /\ NoHtml /\ NoSanitizer

\* rewrite_content is called and reaches its for loop
rewrite_content ==
    /\ ai_pc = "idle"
    /\ ai_pc' = "loop"
    /\ iterations' = 0
    /\ last_error' = UnknownError
    /\ response' = None
    /\ ai_ret' = NoReturn
    /\ attempts' = <<>>
    /\ start_index' = current_key_index
    /\ served_before' = IF ai_ret.kind = "return" /\ ai_ret.data # None
                        THEN <<attempts[Len(attempts)]>>
                        ELSE <<>>
    /\ calls' = calls + 1
    /\ UNCHANGED <<api_keys, current_key_index, model>>

\* the except clause of the loop, for the error text e
Failover(e) ==
    /\ last_error' = e
    /\ LET i == failover_to_next_key(current_key_index)
       IN  IF i < Len(api_keys)
           THEN \E c \in configure_model(Len(api_keys), i, model) :
                   /\ current_key_index' = c.index
                   /\ model' = c.model
                   /\ IF c.raised
                      THEN ai_pc' = "idle" /\ ai_ret' = Raise(AllKeysFailedError)
                      ELSE IF iterations + 1 < Len(api_keys)
                      THEN ai_pc' = "loop" /\ ai_ret' = ai_ret
                      ELSE ai_pc' = "idle" /\ ai_ret' = Return(None, final_reason(e))
           ELSE /\ current_key_index' = i
                /\ model' = model
                /\ ai_pc' = "idle"
                /\ ai_ret' = Return(None, final_reason(e))

\* one iteration of the for loop: a generation attempt with self.model and
\* what follows it
Attempt ==
    /\ ai_pc = "loop"
    /\ iterations' = iterations + 1
    /\ attempts' = Append(attempts, model)
    /\ \/ /\ response' = GenerationRaises
          /\ \E e \in GenerationErrors : Failover(e)
       \/ \E text \in Responses :
             /\ response' = text
             /\ IF parse_response(text) = None
                THEN Failover(ParseFailure)
                ELSE /\ ai_ret' = IF HasErro(parse_response(text))
                                  THEN Return(None, Erro(parse_response(text)))
                                  ELSE Return(parse_response(text), NoReason)
                     /\ ai_pc' = "idle"
                     /\ UNCHANGED <<current_key_index, model, last_error>>
    /\ UNCHANGED <<api_keys, start_index, served_before, calls>>

\* the calls a holder of the instance makes
AiCall == calls < MaxCalls /\ rewrite_content

AiNext == (AiCall \/ Attempt) /\ UNCHANGED <<keypool, cyclevars, feedvars, htmlvars, sanitizers>>

AiSpec == AiInit /\ [][AiNext]_vars

\* the test run_pipeline_cycle makes on the reason of a failed rewrite
PoolExhaustedIn(reason) == \E i \in DOMAIN reason : reason[i] = "pool is exhausted"

(* ----------------------- claims on AIProcessor ------------------------ *)
\* a call of rewrite_content has ended
CallEnded == calls > 0 /\ ai_pc = "idle"

\* the call ended by returning (data, None) or (None, reason)
ReturnedPair ==
    /\ ai_ret.kind = "return"
    /\ \/ ai_ret.data # None /\ ai_ret.reason = NoReason
       \/ ai_ret.data = None /\ ai_ret.reason # NoReason

\* C11 as claimed: a rewrite_content call makes at most len(api_keys)
\* generation attempts and ends by returning a pair, (data, None) or
\* (None, reason); it never raises.
C11_Original ==
    /\ Len(attempts) <= Len(api_keys)
    /\ CallEnded => ReturnedPair

\* the call ended with the outcome "all keys attempted and failed"
AllKeysFailed ==
    /\ CallEnded
    /\ ai_ret = Return(None, final_reason(last_error))

\* the keys (by position) a generation attempt was made with in this call
Attempted == {attempts[i] : i \in DOMAIN attempts}

\* C12 as claimed: a call that ends with "all keys attempted and failed"
\* has made a generation attempt with every key of the category, and each
\* failed attempt of a call is followed by an attempt with a different key;
\* this holds for every call of the instance.
C12_Original ==
    /\ AllKeysFailed => Attempted = 0..(Len(api_keys) - 1)
    /\ \A i \in 1..(Len(attempts) - 1) : attempts[i] # attempts[i + 1]

\* the call returned without success
EndedWithoutSuccess == CallEnded /\ ai_ret.kind = "return" /\ ai_ret.data = None

\* the call began with no key left to switch to (every key of the instance
\* was used up by failures) and ended in failure
PoolExhausted == AllKeysFailed /\ start_index >= Len(api_keys)

\* C13 as claimed: when a rewrite ends without success, the pipeline's test
\* for pool exhaustion on the returned reason is true exactly when the pool
\* was exhausted, and false when the keys were attempted and failed.
C13_Original ==
    EndedWithoutSuccess => (PoolExhaustedIn(ai_ret.reason) <=> PoolExhausted)

\* a generation attempt is made and its response carries the rejection marker
RejectedStep ==
    /\ ai_pc = "loop"
    /\ attempts' = Append(attempts, model)
    /\ HasErro(response')

\* C14: when the response of a generation attempt carries the rejection
\* marker, rewrite_content returns at once (None, the given reason), the
\* key selection state (current_key_index, model) is left as it was, and
\* no further generation attempt is made in that call.
C14_RejectionIsTerminal ==
    /\ [][RejectedStep =>
            /\ ai_pc' = "idle"
            /\ ai_ret' = Return(None, Erro(response'))
            /\ current_key_index' = current_key_index
            /\ model' = model
            /\ last_error' = last_error]_vars
    /\ [][(ai_pc = "idle" /\ HasErro(response)) =>
            (attempts' = attempts \/ (calls' = calls + 1 /\ attempts' = <<>>))]_vars

\* C14 happens: in a call that had already failed over from the first key
\* to the second, the AI rejects the article.
C14_Witness ==
    /\ CallEnded
    /\ response = Rejection
    /\ attempts = <<0, 1>>
    /\ current_key_index = 1
    /\ ai_ret = Return(None, Erro(Rejection))

(* ============== run_pipeline_cycle of app/pipeline.py ================= *)
MaxFeeds == 2
MaxCycles == 2
MaxNewArticles == 2
MaxPipeKeys == 1

\* if consecutive_failures >= 3
BreakerThreshold == 3
\* SCHEDULE_CONFIG.get('max_articles_per_feed', 3)
MaxArticlesPerFeed == 3

\* config.PIPELINE_ORDER, every entry of which has a feed_config in RSS_FEEDS
PIPELINE_ORDER == [i \in 1..MaxFeeds |-> i]
source_id == PIPELINE_ORDER[source_i]

\* the store's counter methods
get_consecutive_failures(f) == consecutive_failures[f]
reset_consecutive_failures(f) == [consecutive_failures EXCEPT ![f] = 0]
increment_consecutive_failures(f) == [consecutive_failures EXCEPT ![f] = @ + 1]

\* db.update_article_status(article_db_id, status, reason=...) and
\* db.save_processed_post, as the record the article ends the cycle with;
\* cause tells what happened to the article (history)
Marked(status, reason, cause) == [status |-> status, reason |-> reason, cause |-> cause]
Unmarked == Marked("NEW", NoReason, "none")

\* the article loop of this feed has not begun
NoArticle == todo = 0 /\ handled = 0 /\ marked = Unmarked /\ steps = <<>>

\* a new iteration of the feed loop: the locals of the article loop are dead
ForgetArticles == todo' = 0 /\ handled' = 0 /\ marked' = Unmarked /\ steps' = <<>>

\* the order of the steps in ContentExtractor.extract
ExtractSteps ==
    <<"_pre_clean_html", "trafilatura.extract", "_remove_forbidden_blocks",
      "collect_images_from_article">>

\* Step 3 and Step 4 of the article loop, in the order of the code
PublishSteps_rewrite_last ==
    <<"merge_images_into_content", "upload_media_from_url",
      "add_credit_to_figures", "hard_filter_forbidden_html",
      "rewrite_img_srcs_with_wp", "create_post">>

PublishSteps ==
    <<"merge_images_into_content", "upload_media_from_url",
      "rewrite_img_srcs_with_wp", "add_credit_to_figures",
      "hard_filter_forbidden_html", "create_post">>

\* failure_reason or "AI processing failed"
ReasonOr(reason) ==
    IF reason = NoReason \/ reason = <<"">> THEN <<"AI processing failed">> ELSE reason

\* the status an article is given when rewrite_content returned no data
StatusOnNoData(reason) ==
    IF PoolExhaustedIn(reason) THEN "FAILED" ELSE "FAILED"

PipeInit ==
    /\ Construct(<<>>) /\ NoScenario
    /\ \E n \in 1..MaxPipeKeys : api_keys = [i \in 1..n |-> KeyName(i)]
    /\ current_key_index = 0 /\ model = None
    /\ ai_pc = "idle" /\ iterations = 0 /\ last_error = None
    /\ response = None /\ ai_ret = NoReturn /\ attempts = <<>>
    /\ start_index = 0 /\ calls = 0 /\ served_before = <<>>
    /\ consecutive_failures \in [1..MaxFeeds -> 0..BreakerThreshold]
    /\ cycle_pc = "idle" /\ source_i = 0 /\ cycles = 0
    /\ turn = [f \in 1..MaxFeeds |-> "pending"]
    /\ skipped_before = {}
    /\ NoArticle
    /\ NoFeedCycle /\ NoHtml /\ NoSanitizer

\* run_pipeline_cycle is called (by the scheduler)
run_pipeline_cycle ==
    /\ cycle_pc = "idle"
    /\ cycles < MaxCycles
    /\ cycles' = cycles + 1
    /\ cycle_pc' = "feed"
    /\ source_i' = 1
    /\ skipped_before' = {f \in DOMAIN turn : turn[f] = "skipped"}
    /\ turn' = [f \in DOMAIN turn |-> "pending"]
    /\ ForgetArticles
    /\ UNCHANGED <<consecutive_failures, processor>>

\* the feed loop goes to its next iteration, or ends the cycle
NextSource ==
    IF source_i < Len(PIPELINE_ORDER)
    THEN cycle_pc' = "feed" /\ source_i' = source_i + 1
    ELSE cycle_pc' = "idle" /\ source_i' = 0

\* lines 47-52: the circuit breaker is open
BreakerSkip ==
    /\ cycle_pc = "feed"
    /\ get_consecutive_failures(source_id) >= BreakerThreshold
    /\ consecutive_failures' = reset_consecutive_failures(source_id)
    /\ turn' = [turn EXCEPT ![source_id] = "skipped"]
    /\ NextSource
    /\ ForgetArticles
    /\ UNCHANGED <<cycles, skipped_before, processor>>

\* AIProcessor(category) at line 62 returned an instance
Constructed(c) ==
    /\ current_key_index' = c.index
    /\ model' = c.model
    /\ ai_pc' = "idle" /\ iterations' = 0 /\ last_error' = None
    /\ response' = None /\ ai_ret' = NoReturn /\ attempts' = <<>>
    /\ start_index' = 0 /\ calls' = 0 /\ served_before' = <<>>
    /\ UNCHANGED api_keys

\* line 62: AIProcessor(category) raises; the exception is raised outside
\* the try of line 64 and leaves run_pipeline_cycle through its finally
SetupFails ==
    /\ cycle_pc = "feed"
    /\ get_consecutive_failures(source_id) < BreakerThreshold
    /\ \E c \in configure_model(Len(api_keys), 0, None) : c.raised
    /\ turn' = [turn EXCEPT ![source_id] = "setup failed"]
    /\ cycle_pc' = "idle"
    /\ source_i' = 0
    /\ ForgetArticles
    /\ UNCHANGED <<consecutive_failures, cycles, skipped_before, processor>>

\* lines 64-70 and 179-181: the feed is read; reading raises, or there is
\* no new article, or the article loop is entered
ReadFeed ==
    /\ cycle_pc = "feed"
    /\ get_consecutive_failures(source_id) < BreakerThreshold
    /\ \E c \in configure_model(Len(api_keys), 0, None) : ~c.raised /\ Constructed(c)
    /\ handled' = 0
    /\ marked' = Unmarked
    /\ steps' = <<>>
    /\ \/ /\ consecutive_failures' = increment_consecutive_failures(source_id)
          /\ turn' = [turn EXCEPT ![source_id] = "failed"]
          /\ todo' = 0
          /\ NextSource
       \/ /\ turn' = [turn EXCEPT ![source_id] = "nothing new"]
          /\ todo' = 0
          /\ NextSource
          /\ UNCHANGED consecutive_failures
       \/ \E new_articles \in 1..MaxNewArticles :
             /\ todo' = Min(new_articles, MaxArticlesPerFeed)
             /\ turn' = [turn EXCEPT ![source_id] = "articles"]
             /\ cycle_pc' = "article"
             /\ UNCHANGED <<consecutive_failures, source_i>>
    /\ UNCHANGED <<cycles, skipped_before>>

\* the feed's AIProcessor instance is used no more
DropProcessor ==
    /\ current_key_index' = 0 /\ model' = None
    /\ ai_pc' = "idle" /\ iterations' = 0 /\ last_error' = None
    /\ response' = None /\ ai_ret' = NoReturn /\ attempts' = <<>>
    /\ start_index' = 0 /\ calls' = 0 /\ served_before' = <<>>
    /\ UNCHANGED api_keys

\* the locals of the rewrite_content call that returned are dead
ForgetCall ==
    /\ iterations' = 0 /\ last_error' = None /\ response' = None
    /\ ai_ret' = NoReturn /\ attempts' = <<>> /\ start_index' = 0
    /\ served_before' = <<>>
    /\ UNCHANGED <<api_keys, current_key_index, model, ai_pc, calls>>

\* variant: the exception is logged and the status left as it is
OnException_logged_only(e) == Marked("PROCESSING", NoReason, "exception")

\* lines 172-174: the except clause of the article loop marks the article
\* FAILED with str(e) as the reason
OnException(e) == Marked("FAILED", <<e>>, "exception")

\* the article ends its iteration with this record; after the last article
\* line 177 resets the counter and the feed loop goes on
FinishArticle(record) ==
    /\ handled' = handled + 1
    /\ marked' = record
    /\ IF handled + 1 < todo
       THEN /\ cycle_pc' = "article"
            /\ ForgetCall
            /\ UNCHANGED <<consecutive_failures, source_i, turn>>
       ELSE /\ consecutive_failures' = reset_consecutive_failures(source_id)
            /\ turn' = [turn EXCEPT ![source_id] = "processed"]
            /\ NextSource
            /\ DropProcessor
    /\ UNCHANGED <<cycles, skipped_before, todo>>

\* lines 76-93: extraction, up to the call of rewrite_content
ExtractArticle ==
    /\ cycle_pc = "article"
    /\ \/ /\ steps' = ExtractSteps
          /\ FinishArticle(Marked("FAILED", <<"Extraction failed">>, "extraction"))
       \/ /\ steps' = ExtractSteps
          /\ FinishArticle(OnException("str(e)"))
       \/ /\ steps' = Append(ExtractSteps, "rewrite_content")
          /\ rewrite_content
          /\ cycle_pc' = "rewriting"
          /\ marked' = Marked("PROCESSING", NoReason, "none")
          /\ UNCHANGED <<consecutive_failures, source_i, cycles, turn,
                         skipped_before, todo, handled>>

\* the generation attempts of the rewrite_content call in progress
RewriteAttempt ==
    /\ cycle_pc = "rewriting"
    /\ Attempt
    /\ UNCHANGED cyclevars

\* lines 95-174: rewrite_content has ended; the article is marked FAILED,
\* or goes through the HTML steps and is published
PublishArticle ==
    /\ cycle_pc = "rewriting"
    /\ ai_pc = "idle"
    /\ IF ai_ret.kind = "raise"
       THEN /\ FinishArticle(OnException(ai_ret.data))
            /\ UNCHANGED steps
       ELSE IF ai_ret.data = None
       THEN /\ FinishArticle(Marked(StatusOnNoData(ReasonOr(ai_ret.reason)),
                                    ReasonOr(ai_ret.reason),
                                    IF PoolExhausted THEN "pool exhausted"
                                    ELSE IF AllKeysFailed THEN "keys failed"
                                    ELSE "rejected"))
            /\ UNCHANGED steps
       ELSE \/ /\ steps' = steps \o PublishSteps
               /\ FinishArticle(Marked("PUBLISHED", NoReason, "none"))
            \/ /\ steps' = steps \o PublishSteps
               /\ FinishArticle(Marked("FAILED", <<"WordPress publishing failed">>, "publish"))
            \/ \E done \in {1} :
                  /\ steps' = steps \o SubSeq(PublishSteps, 1, done)
                  /\ FinishArticle(OnException("str(e)"))

PipeNext ==
    /\ \/ run_pipeline_cycle
       \/ BreakerSkip
       \/ SetupFails
       \/ ReadFeed
       \/ ExtractArticle
       \/ RewriteAttempt
       \/ PublishArticle
    /\ UNCHANGED <<keypool, feedvars, htmlvars, sanitizers>>

PipeSpec == PipeInit /\ [][PipeNext]_vars

(* ------------------- claims on run_pipeline_cycle -------------------- *)
\* a cycle has run and ended (by the end of the feed loop or by an exception)
CycleEnded == cycles > 0 /\ cycle_pc = "idle"

\* the feed was read in this cycle (with or without success)
Read == {"failed", "nothing new", "articles", "processed"}

\* a feed the breaker skipped has had nothing read and no article handled,
\* and its counter is back at 0
SkippedAndReset ==
    \A f \in DOMAIN turn :
        turn[f] = "skipped" => consecutive_failures[f] = 0

\* the breaker does not skip a feed it skipped in the cycle before
NeverSkippedTwice ==
    \A f \in DOMAIN turn : turn[f] = "skipped" => f \notin skipped_before

\* a feed skipped in the cycle before has been read by the end of this one
ReadAfterSkip ==
    CycleEnded => \A f \in skipped_before : turn[f] \in Read

\* C15 as claimed: a feed whose counter has reached 3 when its turn comes is
\* skipped for that cycle and its counter reset to 0, so that the feed is
\* processed again in the following cycle; the breaker never skips the same
\* feed in two successive cycles.
C15_Original == SkippedAndReset /\ NeverSkippedTwice /\ ReadAfterSkip

\* the article loop of a feed has ended with every article of it handled
EveryArticleHandled ==
    (cycle_pc \in {"feed", "idle"} /\ todo > 0) => handled = todo

\* a feed whose turn ended in a feed-level failure had its counter incremented
FailureCounted ==
    \A f \in DOMAIN turn :
        turn[f] \in {"failed", "setup failed"} => consecutive_failures[f] >= 1

\* a cycle that has ended has taken every feed of PIPELINE_ORDER in turn
EveryFeedTaken ==
    CycleEnded => \A f \in DOMAIN turn : turn[f] # "pending"

\* C16 as claimed: a failure while handling one article never prevents the
\* remaining articles of the feed from being handled, and a feed-level
\* failure (failure to set up the feed's AI processor included) increments
\* the feed's failure counter and never prevents the remaining feeds of
\* PIPELINE_ORDER from being processed in the same cycle.
C16_Original == EveryArticleHandled /\ FailureCounted /\ EveryFeedTaken

\* C17 as claimed: an article whose rewrite failed because the key pool is
\* exhausted is put in the DEFERRED state and not marked FAILED; an article
\* is marked FAILED, with a reason, only for the other failure categories.
C17_Original ==
    /\ marked.cause = "pool exhausted" => marked.status = "DEFERRED"
    /\ marked.status = "FAILED" =>
          marked.cause # "pool exhausted" /\ marked.reason # NoReason

(* ============ run_pipeline_cycle of pipeline.py (one feed) ============ *)
MaxFeedCycles == 3
MaxDeferredLimit == 2

\* int(last_index_str) if last_index_str is not None else -1
last_index ==
    IF last_processed_feed_index = <<>> THEN -1 ELSE last_processed_feed_index[1]

next_index == (last_index + 1) % Len(PIPELINE_ORDER)

FeedInit ==
    /\ Construct(<<>>) /\ NoScenario
    /\ NoProcessor /\ NoCycle /\ NoHtml /\ NoSanitizer
    /\ last_processed_feed_index = <<>>
    /\ max_deferred \in 0..MaxDeferredLimit
    /\ feed_pc = "idle" /\ articles_to_process = 0 /\ gone_over = 0
    /\ deferred_count = 0 /\ deferrals = 0 /\ late = 0
    /\ feed_marked = "NEW" /\ feed_cycles = 0 /\ cycle_log = <<>>

\* db.set_pipeline_state('last_processed_feed_index', str(next_index))
SetIndex == last_processed_feed_index' = <<next_index>>

\* the cycle takes the feed at next_index
Taken == Append(cycle_log, [feed |-> next_index, end |-> "running"])

\* the cycle in progress ends, in this way
Ended(log, end) == [log EXCEPT ![Len(log)].end = end]

\* lines 25-57: the cycle picks the next feed and reads it; setting up or
\* reading raises (logged by the outer except), or there is nothing new, or
\* the article loop is entered
BeginFeedCycle ==
    /\ feed_pc = "idle"
    /\ feed_cycles < MaxFeedCycles
    /\ feed_cycles' = feed_cycles + 1
    /\ gone_over' = 0 /\ deferred_count' = 0 /\ deferrals' = 0 /\ late' = 0
    /\ feed_marked' = "NEW"
    /\ \/ /\ feed_pc' = "idle"
          /\ articles_to_process' = 0
          /\ cycle_log' = Ended(Taken, "critical exception")
          /\ UNCHANGED last_processed_feed_index
       \/ /\ feed_pc' = "idle"
          /\ articles_to_process' = 0
          /\ cycle_log' = Ended(Taken, "nothing new")
          /\ SetIndex
       \/ \E new_articles \in 1..MaxNewArticles :
             /\ articles_to_process' = Min(new_articles, MaxArticlesPerFeed)
             /\ feed_pc' = "article"
             /\ cycle_log' = Taken
             /\ UNCHANGED last_processed_feed_index
    /\ UNCHANGED max_deferred

\* the article loop goes to its next article, or ends and line 132 stores
\* the index
NextArticle ==
    IF gone_over + 1 < articles_to_process
    THEN feed_pc' = "article" /\ UNCHANGED <<last_processed_feed_index, cycle_log>>
    ELSE feed_pc' = "idle" /\ SetIndex /\ cycle_log' = Ended(cycle_log, "handled")

\* variant: the index is stored on the way out
ReturnEarly_storing(end) ==
    feed_pc' = "idle" /\ cycle_log' = Ended(cycle_log, end) /\ SetIndex

\* return from inside the loop: the index is not stored
ReturnEarly(end) ==
    /\ feed_pc' = "idle"
    /\ cycle_log' = Ended(cycle_log, end)
    /\ UNCHANGED last_processed_feed_index

\* lines 59-129: one article
FeedArticle ==
    /\ feed_pc = "article"
    /\ gone_over' = gone_over + 1
    /\ late' = IF deferrals > 0 /\ deferrals >= max_deferred THEN late + 1 ELSE late
    /\ \/ \* extraction or processing failed, nothing published, or an
          \* exception was logged: the article keeps its status
          /\ feed_marked' = "NEW"
          /\ NextArticle
          /\ UNCHANGED <<deferred_count, deferrals>>
       \/ \* published
          /\ feed_marked' = "PUBLISHED"
          /\ NextArticle
          /\ UNCHANGED <<deferred_count, deferrals>>
       \/ \* lines 82-85: AllKeysOnCooldownError
          /\ feed_marked' = "NEW"
          /\ ReturnEarly("keys on cooldown")
          /\ UNCHANGED <<deferred_count, deferrals>>
       \/ \* lines 87-96: rewrite_content returned nothing
          /\ feed_marked' = "DEFERRED"
          /\ deferrals' = deferrals + 1
          /\ deferred_count' = deferred_count + 1
          /\ IF deferred_count + 1 >= max_deferred
             THEN ReturnEarly("deferral limit")
             ELSE NextArticle
    /\ UNCHANGED <<max_deferred, articles_to_process, feed_cycles>>

FeedNext ==
    /\ BeginFeedCycle \/ FeedArticle
    /\ UNCHANGED <<keypool, processor, cyclevars, htmlvars, sanitizers>>

FeedSpec == FeedInit /\ [][FeedNext]_vars

\* C18 as claimed: in one cycle over a feed the number of articles set to
\* DEFERRED never exceeds max_deferred_articles_per_feed, for every value of
\* the limit, 0 included, and no article of the feed is processed in that
\* cycle once the limit is reached.
C18_Original ==
    /\ deferrals <= max_deferred
    /\ late = 0

(* ------------------------ the order of the steps --------------------- *)
Applied(step) == \E i \in DOMAIN steps : steps[i] = step
Pos(step) == CHOOSE i \in DOMAIN steps : steps[i] = step

\* step b has not been applied, or step a was applied before it
Before(a, b) == Applied(b) => (Applied(a) /\ Pos(a) < Pos(b))

\* the step applied just before the post is created
LastBeforePost == steps[Pos("create_post") - 1]

\* C19 as claimed: forbidden-block removal is applied before the image
\* merge and the credit step, and rewriting the image sources is the last
\* HTML transformation before the post is published.
C19_Original ==
    /\ Before("_remove_forbidden_blocks", "merge_images_into_content")
    /\ Before("_remove_forbidden_blocks", "add_credit_to_figures")
    /\ Applied("create_post") => LastBeforePost = "rewrite_img_srcs_with_wp"

\* C19 as amended: forbidden-block removal (in the extraction) is applied
\* before the image merge and the credit step; the image sources are
\* rewritten after the merge and the upload, and are followed by the credit
\* step and by the final forbidden-HTML filter, which is the last HTML
\* transformation before the post is published.
C19_StepOrder ==
    /\ Before("_remove_forbidden_blocks", "merge_images_into_content")
    /\ Before("_remove_forbidden_blocks", "add_credit_to_figures")
    /\ Before("merge_images_into_content", "upload_media_from_url")
    /\ Before("upload_media_from_url", "rewrite_img_srcs_with_wp")
    /\ Before("rewrite_img_srcs_with_wp", "add_credit_to_figures")
    /\ Before("add_credit_to_figures", "hard_filter_forbidden_html")
    /\ Applied("create_post") => LastBeforePost = "hard_filter_forbidden_html"

\* C19 happens: an article went through every step and was published.
C19_Witness ==
    /\ marked.status = "PUBLISHED"
    /\ Applied("_remove_forbidden_blocks")
    /\ Applied("rewrite_img_srcs_with_wp")
    /\ Applied("create_post")

(* ================= merge_images_into_content ========================== *)
MaxElements == 2
MaxCandidates == 2
MaxImages == 2

\* A URL text: a body, written in upper or lower case, with or without a
\* trailing slash. The empty text has an empty body.
Url(body, upper, slash) == [body |-> body, upper |-> upper, slash |-> slash]
EmptyUrl == Url("", FALSE, FALSE)
Urls == {EmptyUrl, Url("a", FALSE, FALSE), Url("a", TRUE, TRUE), Url("b", FALSE, FALSE)}

\* html_utils._norm_key: strip, drop the trailing slash, lower the case
norm_key(u) == Url(u.body, FALSE, FALSE)

\* the elements of a document: a paragraph, an image with its src and its
\* srcset URLs, a figure holding an image
Paragraph == [tag |-> "p", src |-> EmptyUrl, srcset |-> <<>>]
Image(src, srcset) == [tag |-> "img", src |-> src, srcset |-> srcset]
Figure(src) == [tag |-> "figure", src |-> src, srcset |-> <<>>]
Elements ==
    {Paragraph} \cup
    {Image(u, ss) : u \in Urls, ss \in {<<>>, <<Url("b", FALSE, FALSE)>>}}

\* the sequences over a set, up to a length
RECURSIVE SeqsUpTo(_, _)
SeqsUpTo(S, n) ==
    IF n = 0 THEN {<<>>}
    ELSE LET shorter == SeqsUpTo(S, n - 1)
         IN  shorter \cup {Append(q, x) : q \in {r \in shorter : Len(r) = n - 1}, x \in S}

IsImage(element) == element.tag \in {"img", "figure"}

\* soup.find_all("img"), in document order
Images(doc) == SelectSeq(doc, IsImage)

\* the set `present` of lines 181-191
Present(doc) ==
    {norm_key(doc[i].src) : i \in {j \in DOMAIN doc : IsImage(doc[j]) /\ doc[j].src # EmptyUrl}}
    \cup UNION {{norm_key(doc[i].srcset[k]) : k \in {m \in DOMAIN doc[i].srcset : doc[i].srcset[m] # EmptyUrl}} :
                i \in {j \in DOMAIN doc : IsImage(doc[j])}}

\* the list `to_add` of lines 193-200, from candidate i on
RECURSIVE ToAdd_only_without_images(_, _, _, _, _)
ToAdd_only_without_images(doc, urls, limit, i, acc) ==
    IF i > Len(urls) \/ Images(doc) # <<>> THEN acc
    ELSE IF norm_key(urls[i]) = EmptyUrl \/ norm_key(urls[i]) \in Present(doc)
    THEN ToAdd_only_without_images(doc, urls, limit, i + 1, acc)
    ELSE IF Len(acc) + 1 >= limit THEN Append(acc, urls[i])
    ELSE ToAdd_only_without_images(doc, urls, limit, i + 1, Append(acc, urls[i]))

RECURSIVE ToAdd(_, _, _, _, _)
ToAdd(doc, urls, limit, i, acc) ==
    IF i > Len(urls) THEN acc
    ELSE IF norm_key(urls[i]) = EmptyUrl \/ norm_key(urls[i]) \in Present(doc)
    THEN ToAdd(doc, urls, limit, i + 1, acc)
    ELSE IF Len(acc) + 1 >= limit THEN Append(acc, urls[i])
    ELSE ToAdd(doc, urls, limit, i + 1, Append(acc, urls[i]))

\* the figures of lines 207-210
Figures(urls) == [i \in DOMAIN urls |-> Figure(urls[i])]

\* soup.find("p"): the position of the first paragraph, 0 when there is none
FirstParagraph(doc) ==
    IF \E i \in DOMAIN doc : doc[i].tag = "p"
    THEN CHOOSE i \in DOMAIN doc : doc[i].tag = "p" /\ \A j \in 1..(i - 1) : doc[j].tag # "p"
    ELSE 0

\* merge_images_into_content(content_html, image_urls, max_images)
merge_images_into_content(doc, urls, limit) ==
    LET to_add == ToAdd(doc, urls, limit, 1, <<>>)
        at == FirstParagraph(doc)
    IN  IF at = 0
        THEN doc \o Figures(to_add)
        ELSE SubSeq(doc, 1, at) \o Figures(to_add) \o SubSeq(doc, at + 1, Len(doc))

HtmlInit ==
    /\ Construct(<<>>) /\ NoScenario
    /\ NoProcessor /\ NoCycle /\ NoFeedCycle /\ NoSanitizer
    /\ content_html \in SeqsUpTo(Elements, MaxElements)
    /\ image_urls \in SeqsUpTo(Urls, MaxCandidates)
    /\ max_images \in 0..MaxImages
    /\ merged = <<>>
    /\ html_pc = "input"

Merge ==
    /\ html_pc = "input"
    /\ merged' = merge_images_into_content(content_html, image_urls, max_images)
    /\ html_pc' = "merged"
    /\ UNCHANGED <<content_html, image_urls, max_images>>

HtmlNext == Merge /\ UNCHANGED <<keypool, processor, cyclevars, feedvars, sanitizers>>

HtmlSpec == HtmlInit /\ [][HtmlNext]_vars

(* ----------------- claims on merge_images_into_content ---------------- *)
\* the candidates a merge can inject: those with a non-empty normalised URL
\* that no src or srcset URL of the document has
Qualifying == SelectSeq(image_urls, LAMBDA u :
                  norm_key(u) # EmptyUrl /\ norm_key(u) \notin Present(content_html))

\* the elements of the output that are not in the input
Injected == SelectSeq(merged, LAMBDA e : e.tag = "figure")

DistinctQualifying == {norm_key(Qualifying[i]) : i \in DOMAIN Qualifying}

\* C21 as claimed: with no image in the document, the merge injects exactly
\* min(max_images, number of distinct candidate URLs not already present)
\* figures, for every max_images >= 0 and every candidate list; no two
\* injected images have the same normalised URL, none has a URL of the
\* document, and the injected images keep the candidate order.
C21_Original ==
    (html_pc = "merged" /\ Images(content_html) = <<>>) =>
        /\ Len(Injected) = Min(max_images, Cardinality(DistinctQualifying))
        /\ \A i, j \in DOMAIN Injected :
               norm_key(Injected[i].src) = norm_key(Injected[j].src) => i = j
        /\ \A i \in DOMAIN Injected : norm_key(Injected[i].src) \notin Present(content_html)
        /\ \A i \in DOMAIN Injected : Injected[i] = Figure(Qualifying[i])

(* ============ html_utils: normalizing the video embeds ================ *)
MaxEmbedElements == 2

YOUTUBE_HOSTS == {"youtube.com", "www.youtube.com", "m.youtube.com", "youtu.be", "www.youtu.be"}

\* An iframe source as urlparse reads it: the host, the segments of the path
\* ("/embed/abc123" is <<"embed", "abc123">>, "/embed/" is <<"embed", "">>)
\* and the value of the query parameter v ("" when there is none).
Src(host, path, v) == [host |-> host, path |-> path, v |-> v]
NoSrc == Src("", <<>>, "")
Hosts == {"www.youtube.com", "youtu.be", "player.vimeo.com"}
Paths == {<<"embed", "abc123">>, <<"embed", "">>, <<"shorts", "abc123">>,
          <<"abc123">>, <<"watch">>, <<"channel", "abc123">>}
Srcs ==
    {NoSrc} \cup {Src(h, p, "") : h \in Hosts, p \in Paths}
            \cup {Src(h, <<"watch">>, "abc123") : h \in Hosts}

\* host.endswith("youtu.be")
EndsWithYoutuBe(host) == host \in {"youtu.be", "www.youtu.be"}

\* a video id, as the path segments it is made of; no id is <<>>
NoId == <<>>
Falsy(vid) == vid = NoId \/ vid = <<"">>

\* html_utils._yt_id_from_url
yt_id_from_url(url) ==
    IF url = NoSrc THEN NoId
    ELSE IF url.host \notin YOUTUBE_HOSTS THEN NoId
    ELSE IF Len(url.path) >= 2 /\ url.path[1] = "embed" THEN <<url.path[2]>>
    ELSE IF Len(url.path) >= 2 /\ url.path[1] = "shorts" THEN <<url.path[2]>>
    ELSE IF EndsWithYoutuBe(url.host) THEN url.path
    ELSE IF url.path = <<"watch">> THEN (IF url.v = "" THEN NoId ELSE <<url.v>>)
    ELSE NoId

\* the elements of a document: an iframe, alone or as the only child of a
\* figure; a paragraph with its text; a script; a figure left empty
Iframe(src, figure) == [tag |-> "iframe", src |-> src, text |-> <<>>, figure |-> figure]
P(text, figure) == [tag |-> "p", src |-> NoSrc, text |-> text, figure |-> figure]
Script == [tag |-> "script", src |-> NoSrc, text |-> <<>>, figure |-> FALSE]
EmptyFigure == [tag |-> "figure", src |-> NoSrc, text |-> <<>>, figure |-> FALSE]
PlainText == <<"text">>
CreditLine == <<"Fonte:", "text">>
WatchUrl(vid) == <<"https://www.youtube.com/watch?v=">> \o vid
EmbedElements ==
    {Iframe(u, f) : u \in Srcs, f \in BOOLEAN} \cup
    {P(PlainText, FALSE), P(CreditLine, FALSE), Script}

\* strip_credits_and_normalize_youtube, on one element: the credit lines are
\* removed, a YouTube iframe becomes a paragraph with the watch URL, and a
\* figure that holds only that paragraph, or nothing but an iframe, is undone
strip_credits_and_normalize_youtube(element) ==
    IF element.tag = "p" /\ element.text = CreditLine THEN <<>>
    ELSE IF element.tag = "iframe"
    THEN IF ~Falsy(yt_id_from_url(element.src))
         THEN <<P(WatchUrl(yt_id_from_url(element.src)), FALSE)>>
         ELSE <<Iframe(element.src, FALSE)>>
    ELSE <<element>>

\* hard_filter_forbidden_html, on one element: the unwanted tags are removed,
\* a YouTube iframe becomes a paragraph with the watch URL, every other
\* iframe is removed; a figure stays around what is left
hard_filter_forbidden_html(element) ==
    IF element.tag = "script" THEN <<>>
    ELSE IF element.tag = "iframe"
    THEN IF ~Falsy(yt_id_from_url(element.src))
         THEN <<P(WatchUrl(yt_id_from_url(element.src)), element.figure)>>
         ELSE IF element.figure THEN <<EmptyFigure>> ELSE <<>>
    ELSE <<element>>

Normalizers == {"strip_credits_and_normalize_youtube", "hard_filter_forbidden_html"}

Apply(f, element) ==
    IF f = "hard_filter_forbidden_html" THEN hard_filter_forbidden_html(element)
    ELSE strip_credits_and_normalize_youtube(element)

EmbedInit ==
    /\ Construct(<<>>) /\ NoScenario
    /\ NoProcessor /\ NoCycle /\ NoFeedCycle /\ NoHtml /\ NoBlocks
    /\ html \in SeqsUpTo(EmbedElements, MaxEmbedElements)
    /\ normalizer = None
    /\ normalized = <<>>

Normalize(f) ==
    /\ normalizer = None
    /\ normalizer' = f
    /\ normalized' = [i \in DOMAIN html |-> Apply(f, html[i])]
    /\ UNCHANGED html

EmbedNext ==
    /\ \E f \in Normalizers : Normalize(f)
    /\ UNCHANGED <<keypool, processor, cyclevars, feedvars, htmlvars, blockvars>>

EmbedSpec == EmbedInit /\ [][EmbedNext]_vars

(* ----------------- claims on the embed normalization ------------------ *)
\* the ids that the recognised shapes give for a source of an allow-listed
\* host: /embed/<id>, /shorts/<id>, <id> as the path on the short host,
\* /watch?v=<id>
RecognisedIds(url) ==
    IF url.host \notin YOUTUBE_HOSTS THEN {}
    ELSE {<<url.path[2]>> : x \in {y \in {0} : /\ Len(url.path) = 2
                                                /\ url.path[1] \in {"embed", "shorts"}
                                                /\ url.path[2] # ""}}
         \cup {url.path : x \in {y \in {0} : /\ EndsWithYoutuBe(url.host)
                                             /\ Len(url.path) = 1
                                             /\ url.path[1] # ""}}
         \cup {<<url.v>> : x \in {y \in {0} : url.path = <<"watch">> /\ url.v # ""}}

\* C22 as claimed: every iframe whose source is a URL of an allow-listed
\* host in one of the recognised shapes is replaced by the plain text
\* https://www.youtube.com/watch?v=<id>, every other iframe is removed with
\* no text in its place, and no iframe is left in the output of either
\* normalizing function.
C22_Original ==
    normalizer # None =>
        \A i \in DOMAIN html :
            /\ \A j \in DOMAIN normalized[i] : normalized[i][j].tag # "iframe"
            /\ html[i].tag = "iframe" =>
                   IF RecognisedIds(html[i].src) # {}
                   THEN /\ Len(normalized[i]) = 1
                        /\ normalized[i][1].tag = "p"
                        /\ \E vid \in RecognisedIds(html[i].src) :
                               normalized[i][1].text = WatchUrl(vid)
                   ELSE \A j \in DOMAIN normalized[i] : normalized[i][j].text = <<>>

(* ============ extractor: _remove_forbidden_blocks ===================== *)
MaxBlocks == 2
MaxPasses == 2

FORBIDDEN_TEXT_EXACT == {"Your comment has not been saved"}
FORBIDDEN_LABELS ==
    {"Release Date", "Runtime", "Director", "Directors", "Writer", "Writers",
     "Producer", "Producers", "Cast"}

\* A text node, as the sequence of its words (a phrase or a label of the
\* sets above is one word, a colon is a word of its own); no text is <<>>.
NoText == <<>>
Texts ==
    {<<"Director">>, <<"Cast", ":">>, <<"Cast", ":", "text">>, <<"text">>,
     <<"Your comment has not been saved">>}
SpanTexts == {<<"Director">>, <<"Cast", ":">>, <<"Your comment has not been saved">>}

\* A paragraph: its own text, followed by a span with a text of its own
\* (no span when that is NoText).
Para(text, span) == [text |-> text, span |-> span]
Paras == {Para(t, sp) : t \in Texts \cup {NoText}, sp \in SpanTexts \cup {NoText}}

\* A document: paragraphs, inside a div or not.
Doc(container, blocks) == [container |-> container, blocks |-> blocks]
Docs == {Doc(c, b) : c \in BOOLEAN, b \in SeqsUpTo(Paras, MaxBlocks)}
RemovedContainer == Doc(FALSE, <<>>)

RECURSIVE Concat(_)
Concat(seqs) == IF seqs = <<>> THEN <<>> ELSE Head(seqs) \o Concat(Tail(seqs))

\* the text nodes of a paragraph, in document order
TextNodes(p) ==
    (IF p.text = NoText THEN <<>> ELSE <<p.text>>) \o
    (IF p.span = NoText THEN <<>> ELSE <<p.span>>)

\* tag.get_text(separator="\n") of the container: one line per text node
Lines(doc) == Concat([i \in DOMAIN doc.blocks |-> TextNodes(doc.blocks[i])])

\* " ".join(text.split()): the words of all lines, the line ends lost
Collapse(lines) == Concat(lines)

\* re.search(rf"(^|\n)\s*{lbl}\s*(\n|:|$)", text) on a text without line
\* ends: the label begins the text and a colon or the end follows it
Search(lbl, text) ==
    /\ text # <<>>
    /\ text[1] = lbl
    /\ (Len(text) = 1 \/ text[2] = ":")

\* lbl_count of line 198
lbl_count(doc) ==
    Cardinality({lbl \in FORBIDDEN_LABELS : Search(lbl, Collapse(Lines(doc)))})

\* .strip().rstrip(':').strip()
RECURSIVE rstrip_colon(_)
rstrip_colon(text) ==
    IF text # <<>> /\ text[Len(text)] = ":"
    THEN rstrip_colon(SubSeq(text, 1, Len(text) - 1))
    ELSE text

\* s in FORBIDDEN_TEXT_EXACT or s in FORBIDDEN_LABELS
Forbidden(s) == Len(s) = 1 /\ s[1] \in FORBIDDEN_TEXT_EXACT \cup FORBIDDEN_LABELS

\* lines 180-191: the parent of every text node that is a forbidden phrase
\* is removed
RemoveExact(doc) ==
    Doc(doc.container,
        Concat([i \in DOMAIN doc.blocks |->
            LET p == doc.blocks[i]
            IN  IF Len(p.text) = 1 /\ p.text[1] \in FORBIDDEN_TEXT_EXACT THEN <<>>
                ELSE IF Len(p.span) = 1 /\ p.span[1] \in FORBIDDEN_TEXT_EXACT
                THEN <<Para(p.text, NoText)>>
                ELSE <<p>>]))

\* lines 193-208: the containers with two labels or more are removed
RemoveInfoboxes(doc) ==
    IF doc.container /\ lbl_count(doc) >= 2 THEN RemovedContainer ELSE doc

\* lines 210-215: the paragraphs and spans, in document order, whose whole
\* text is a forbidden phrase or label are removed
RemoveLabels(doc) ==
    Doc(doc.container,
        Concat([i \in DOMAIN doc.blocks |->
            LET p == doc.blocks[i]
            IN  IF Forbidden(rstrip_colon(p.text \o p.span)) THEN <<>>
                ELSE IF p.span # NoText /\ Forbidden(rstrip_colon(p.span))
                THEN <<Para(p.text, NoText)>>
                ELSE <<p>>]))

\* ContentExtractor._remove_forbidden_blocks
remove_forbidden_blocks(doc) == RemoveLabels(RemoveInfoboxes(RemoveExact(doc)))

BlockInit ==
    /\ Construct(<<>>) /\ NoScenario
    /\ NoProcessor /\ NoCycle /\ NoFeedCycle /\ NoHtml /\ NoEmbed
    /\ soup \in Docs
    /\ previous = soup
    /\ passes = 0

Pass ==
    /\ passes < MaxPasses
    /\ previous' = soup
    /\ soup' = remove_forbidden_blocks(soup)
    /\ passes' = passes + 1

BlockNext ==
    Pass /\ UNCHANGED <<keypool, processor, cyclevars, feedvars, htmlvars, embedvars>>

BlockSpec == BlockInit /\ [][BlockNext]_vars

(* ----------------- claims on _remove_forbidden_blocks ----------------- *)
\* C23 as claimed: a second pass of _remove_forbidden_blocks on the output
\* of a first one changes nothing, for every document, also when an element
\* with a forbidden label is inside an element whose other text is a
\* forbidden label.
C23_Original == passes >= 2 => soup = previous

\* a label-like line: the label alone on the line, or followed by a colon
LabelLine(lbl, line) ==
    /\ line # <<>>
    /\ line[1] = lbl
    /\ (Len(line) = 1 \/ line[2] = ":")

\* the labels that have a label-like line in the document
LabelsOf(doc) ==
    {lbl \in FORBIDDEN_LABELS : \E i \in DOMAIN Lines(doc) : LabelLine(lbl, Lines(doc)[i])}

\* C25 as claimed: a container in which at least 2 distinct labels appear
\* as label-like lines is removed as a whole by one pass, wherever in its
\* text those lines are.
C25_Original ==
    (passes = 1 /\ previous.container /\ Cardinality(LabelsOf(previous)) >= 2) =>
        soup = RemovedContainer

(* ----------------- claims on the frame of the pool calls --------------- *)
\* C24 as claimed: next_key never changes the rotation cursor, the
\* cooldowns or the failure counters, also when it skips cooling keys or
\* returns none.
C24_Original ==
    [][CallStep("next_key") => UNCHANGED <<index, cooldowns, fail_counts>>]_vars

\* C24 as amended: next_key never changes the keys, the cooldowns or the
\* failure counters, and leaves the cursor on the key it returns: the cursor
\* stays where it is when the key under it is available and when none is
\* returned, and otherwise moves forward over the cooling keys it skips,
\* and over nothing else.
C24_NextKeyFrame ==
    [][CallStep("next_key") =>
          /\ UNCHANGED <<keys, cooldowns, fail_counts>>
          /\ ret' = None => index' = index
          /\ ret' # None => keys[index' + 1] = ret'
          /\ (keys # <<>> /\ cooldowns[keys[index + 1]] <= now) => index' = index
          /\ ret' # None =>
                 /\ skipped' < Len(keys)
                 /\ index' = (index + skipped') % Len(keys)
                 /\ \A j \in 0..(skipped' - 1) : cooldowns[KeyAt(index, j)] > now]_vars

\* C24 happens: a next_key call moved the cursor over a cooling key and
\* returned the key after it.
C24_Witness ==
    /\ op.name = "next_key"
    /\ ret \in Range(keys)
    /\ skipped > 0
    /\ keys[index + 1] = ret

(* ----------------- claims on the key that serves a rewrite ------------ *)
\* the call ended with a rewritten article
Succeeded == CallEnded /\ ai_ret.kind = "return" /\ ai_ret.data # None

\* the position of the key that served the call that ended
Served == attempts[Len(attempts)]

\* C26 as claimed: a successful rewrite advances the rotation, so with at
\* least two keys two consecutive successful rewrite calls of one processor
\* are served by different keys.
C26_Original ==
    (Succeeded /\ served_before # <<>> /\ Len(api_keys) >= 2) =>
        Served # served_before[1]

(* ----------------- claims on the failure counter of a feed ------------- *)
\* the turns of a feed that end without a feed-level exception
ExceptionFree == {"nothing new", "processed"}

\* C27 as claimed: every turn of a feed that ends without a feed-level
\* exception, a turn that finds no new article included, resets the feed's
\* consecutive-failure counter to 0, so that the counter counts only
\* feed-level exceptions with no exception-free turn between them.
C27_Original ==
    \A f \in DOMAIN turn :
        turn[f] \in ExceptionFree => consecutive_failures[f] = 0

(* ----------------- claims on the round robin of pipeline.py ------------ *)
\* the ways a cycle ends normally, and the ways it is aborted
NormalEnds == {"nothing new", "handled"}
AbortedEnds == {"keys on cooldown", "deferral limit", "critical exception"}

\* the cycles that ended normally, in order
NormalCycles == SelectSeq(cycle_log, LAMBDA c : c.end \in NormalEnds)

\* the feed of the last cycle that ended normally before cycle i, -1 when
\* there is none
LastNormalBefore(i) ==
    IF \E j \in 1..(i - 1) : cycle_log[j].end \in NormalEnds
    THEN cycle_log[CHOOSE j \in 1..(i - 1) :
                       /\ cycle_log[j].end \in NormalEnds
                       /\ \A m \in (j + 1)..(i - 1) : cycle_log[m].end \notin NormalEnds].feed
    ELSE -1

Settled == {"PUBLISHED", "FAILED"}

StrangerReport ==
    /\ (CallStep("report_failure") \/ CallStep("report_success"))
    /\ op'.key \notin Range(keys)

\* C30 as claimed: a report for a key that is not in the pool, a pool built
\* with no usable key included, changes neither the cursor nor the cooldowns
\* nor the failure counters and raises no error, for report_failure and for
\* report_success.
C30_Original ==
    [][StrangerReport =>
          /\ UNCHANGED <<index, cooldowns, fail_counts>>
          /\ ret' = Void]_vars

====
